---- MODULE Spec2Model ----
(***************************************************************************)
(* borgtools: the backup runner (backup.py) and the report runner          *)
(* (notifier.py), modelled as two sequential programs around the external  *)
(* archive engine "borg".                                                  *)
(*                                                                         *)
(* A Python string is a sequence of tokens (atomic pieces of text), so     *)
(* that an f-string is a concatenation and "the secret occurs in this      *)
(* text" is a question the model can answer.  An argument vector is a      *)
(* sequence of such strings.                                               *)
(***************************************************************************)
EXTENDS Integers, Sequences, FiniteSets, TLC

VARIABLES
    config,      \* the loaded YAML configuration (both programs)
    dry_run,     \* backup.py: args.dry_run
    clock,       \* backup.py: what datetime.now() answers: [hour, tick]
    pc,          \* backup.py: position of the run
    i,           \* backup.py: index of the backup spec the loop is at
    is_workday,  \* backup.py: local of backup()
    now,         \* backup.py: local of backup_one(): the strftime stamp
    sink,        \* backup.py: where sys.stdout points
    log,         \* backup.py: lines written by say()
    spawned,     \* backup.py: subprocess.run calls: [argv, env]
    failures,    \* backup.py: how many of them exited non-zero
    prev,        \* the finished earlier run of the same configuration
    debug,       \* notifier.py: args.debug
    email_method,\* notifier.py: args.email_method
    engine,      \* notifier.py: what the metadata query of spec k yields
    today,       \* notifier.py: what pd.Timestamp.now() answers, in days
    rpc,         \* notifier.py: position of the run
    k,           \* notifier.py: index of the backup spec the loop is at
    msg,         \* notifier.py: the MailMessage being built
    stderr,      \* notifier.py: lines written to sys.stderr
    queries,     \* notifier.py: subprocess.check_output calls: [argv, env]
    outbox       \* notifier.py: messages handed to a delivery channel

bvars == <<config, dry_run, clock, pc, i, is_workday, now, sink, log, spawned,
          failures, prev>>

rvars == <<debug, email_method, engine, today, rpc, k, msg, stderr, queries, outbox>>

vars == <<config, dry_run, clock, pc, i, is_workday, now, sink, log, spawned,
          failures, prev,
          debug, email_method, engine, today, rpc, k, msg, stderr, queries, outbox>>

-----------------------------------------------------------------------------
(* Bounds *)

MaxSpecs == 2       \* longest list of backup specs
MaxHist == 4        \* most archives a metadata query returns

-----------------------------------------------------------------------------
(* Text helpers *)

Str(t) == <<t>>

RECURSIVE Flatten(_)
Flatten(ss) == IF ss = <<>> THEN <<>> ELSE Head(ss) \o Flatten(Tail(ss))

Tokens(s) == {s[n] : n \in DOMAIN s}

\* sep.join(l)
RECURSIVE Join(_, _)
Join(sep, l) ==
    IF l = <<>> THEN <<>>
    ELSE Head(l) \o (IF Tail(l) = <<>> THEN <<>> ELSE sep \o Join(sep, Tail(l)))

\* dict.get(key, default)
Get(d, key, default) == IF key \in DOMAIN d THEN d[key] ELSE default

\* repr() of a list of strings, as the f-string of run() prints it
RECURSIVE ReprItems(_)
ReprItems(l) ==
    IF l = <<>> THEN <<>>
    ELSE <<"'">> \o Head(l) \o <<"'">>
         \o (IF Tail(l) = <<>> THEN <<>> ELSE <<", ">> \o ReprItems(Tail(l)))

Repr(l) == <<"[">> \o ReprItems(l) \o <<"]">>

-----------------------------------------------------------------------------
(* Configurations *)

NormalSpec ==
    "remote-repo" :> <<"vol", "/", "home">>
    @@ "local-dirs" :> << <<"/home">> >>

SlowSpec ==
    "remote-repo" :> <<"vol", "/", "media">>
    @@ "local-dirs" :> << <<"/media">>, <<"/srv">> >>
    @@ "exclude" :> << <<"*.tmp">> >>
    @@ "extra-args" :> << <<"--one-file-system">> >>
    @@ "is-slow" :> TRUE

QuickSpec ==
    "remote-repo" :> <<"etc">>
    @@ "local-dirs" :> << <<"/etc">> >>
    @@ "exclude" :> << <<"*.bak">>, <<"*.swp">> >>
    @@ "is-slow" :> FALSE

BackupSpecs == {NormalSpec, SlowSpec, QuickSpec}

SpecLists == UNION {[1..n -> BackupSpecs] : n \in 0..MaxSpecs}

Configs ==
    {"backup-host" :> <<"nas">>
     @@ "backup-password" :> <<"hunter2">>
     @@ "archive-name-format" :> <<"%Y-%m-%d_%H:%M">>
     @@ "logfile" :> <<"/var/log/backup.log">>
     @@ "email-num-backups" :> <<"30">>
     @@ "email-from" :> <<"backup@nas">>
     @@ "email-to" :> << <<"ops@example.org">> >>
     @@ "email-aws-profile" :> <<"mailer">>
     @@ "backup-specs" :> l : l \in SpecLists}

ExitCodes == {0, 2}

\* clock readings a run may start at
Ticks == {0, 1}

NoRun == [log |-> <<>>, spawned |-> <<>>, dry_run |-> FALSE, valid |-> FALSE]

-----------------------------------------------------------------------------
(* backup.py *)

\* say(): one line on the log stream (the wall-clock prefix is left out)
say(l, s) == Append(l, s)

\* the env= argument of subprocess.run
SubprocessEnv(cfg) == "BORG_PASSPHRASE" :> cfg["backup-password"]

\* a run() that prints the dry command line joined by blanks
RunLineJoined(dry, cmdline) ==
    Str(IF dry THEN "would run" ELSE "running") \o <<": ">>
    \o (IF dry THEN Join(<<" ">>, cmdline) ELSE Repr(cmdline))

\* the line run() logs for a command
RunLine(dry, cmdline) ==
    Str(IF dry THEN "would run" ELSE "running") \o <<": ">> \o Repr(cmdline)

\* a run() that lets a failed command raise
AfterRunChecked(rc, next) == IF rc # 0 THEN "crashed" ELSE next

\* subprocess.run has no check=True: the exit status is dropped and the
\* caller goes on to its next statement
AfterRun(rc, next) == next

\* run(args, config, cmdline), continuing at `next`
run(l, cmdline, next) ==
    /\ log' = say(l, RunLine(dry_run, cmdline))
    /\ IF dry_run
       THEN /\ UNCHANGED <<spawned, failures>>
            /\ pc' = next
       ELSE \E rc \in ExitCodes :
            /\ spawned' = Append(spawned,
                   [argv |-> cmdline, env |-> SubprocessEnv(config)])
            /\ failures' = IF rc = 0 THEN failures ELSE failures + 1
            /\ pc' = AfterRun(rc, next)

\* a repository named without its host
RemoteRepoNoHost(cfg, backupspec) == backupspec["remote-repo"]

RemoteRepo(cfg, backupspec) ==
    cfg["backup-host"] \o <<":">> \o backupspec["remote-repo"]

\* now.strftime(config['archive-name-format'])
Strftime(tick, fmt) == <<"strftime(">> \o fmt \o <<",", ToString(tick), ")">>

ArchiveName(cfg, backupspec, tick) ==
    RemoteRepo(cfg, backupspec) \o <<"::">>
    \o Strftime(tick, cfg["archive-name-format"])

RECURSIVE Excludes(_)
Excludes(l) ==
    IF l = <<>> THEN <<>> ELSE <<Str("--exclude"), Head(l)>> \o Excludes(Tail(l))

CreateCmd(cfg, backupspec, tick) ==
    <<Str("borg"), Str("create"), Str("--stats"), Str("--exclude-caches")>>
    \o Get(backupspec, "extra-args", <<>>)
    \o Excludes(Get(backupspec, "exclude", <<>>))
    \o <<ArchiveName(cfg, backupspec, tick)>>
    \o backupspec["local-dirs"]

\* a prune that keeps fewer daily archives and no monthly ones
PruneCmdShort(remote_repo) ==
    <<Str("borg"), Str("prune"), Str("--stats"), remote_repo,
      Str("--keep-hourly"), Str("50"),
      Str("--keep-daily"), Str("30"),
      Str("--keep-weekly"), Str("90")>>

PruneCmd(remote_repo) ==
    <<Str("borg"), Str("prune"), Str("--stats"), remote_repo,
      Str("--keep-hourly"), Str("50"),
      Str("--keep-daily"), Str("90"),
      Str("--keep-weekly"), Str("90"),
      Str("--keep-monthly"), Str("1000")>>

ListCmd(remote_repo) == <<Str("borg"), Str("list"), remote_repo>>

\* a workday that begins an hour late
IsWorkdayLate(hour) == hour > 7 /\ hour <= 23

IsWorkday(hour) == hour >= 7 /\ hour <= 23

ShouldSkip(workday, backupspec) == workday /\ Get(backupspec, "is-slow", FALSE)

specs == config["backup-specs"]

\* main() up to the loop of backup()
backup_start ==
    /\ pc = "start"
    /\ sink' = IF dry_run THEN "stdout" ELSE "logfile"
    /\ log' = say(log, Str("Starting up"))
    /\ is_workday' = IsWorkday(clock.hour)
    /\ i' = 1
    /\ pc' = "loop"
    /\ UNCHANGED <<config, dry_run, clock, now, spawned, failures, prev, rvars>>

\* the loop body when the gate declines
backup_skip ==
    /\ pc = "loop"
    /\ i <= Len(specs)
    /\ ShouldSkip(is_workday, specs[i])
    /\ log' = say(log, <<"Skipping mid-day backup of ">> \o specs[i]["remote-repo"])
    /\ i' = i + 1
    /\ UNCHANGED <<config, dry_run, clock, pc, is_workday, now, sink, spawned, failures, prev, rvars>>

\* backup_one() to the end of its create command
backup_one_create ==
    /\ pc = "loop"
    /\ i <= Len(specs)
    /\ ~ShouldSkip(is_workday, specs[i])
    /\ now' = clock.tick + i - 1
    /\ LET started == say(say(log, Str("\n\n")),
                          <<"Starting backup to: ">> \o ArchiveName(config, specs[i], now'))
       IN  run(started, CreateCmd(config, specs[i], now'), "prune")
    /\ UNCHANGED <<config, dry_run, clock, i, is_workday, sink, prev, rvars>>

backup_one_prune ==
    /\ pc = "prune"
    /\ run(log, PruneCmd(RemoteRepo(config, specs[i])), "list")
    /\ UNCHANGED <<config, dry_run, clock, i, is_workday, now, sink, prev, rvars>>

\* the list command of backup_one(), and the return to the for statement
backup_one_list ==
    /\ pc = "list"
    /\ run(log, ListCmd(RemoteRepo(config, specs[i])), "loop")
    /\ i' = i + 1
    /\ UNCHANGED <<config, dry_run, clock, is_workday, now, sink, prev, rvars>>

backup_finish ==
    /\ pc = "loop"
    /\ i > Len(specs)
    /\ log' = say(log, Str("Finishing\n\n\n"))
    /\ pc' = "done"
    /\ UNCHANGED <<config, dry_run, clock, i, is_workday, now, sink, spawned, failures, prev, rvars>>

-----------------------------------------------------------------------------
(* What the archive engine may answer to a metadata query *)

Snap(d, nf, os, cs) ==
    [start |-> d, nfiles |-> nf, original_size |-> os, compressed_size |-> cs]

\* archives a repository may hold; start is in whole days
Snapshots ==
    { Snap(0, 1000, 50000, 30000),
      Snap(0, 0, 0, 0),
      Snap(1, 750, 40000, 20000),
      Snap(1, 1200, 39999, 20000),
      Snap(2, 850, 60000, 30000),
      Snap(2, 100, 10000, 5000),
      Snap(3, 400, 9999, 5000),
      Snap(3, 99, 60001, 30000) }

Histories == UNION {[1..n -> Snapshots] : n \in 0..MaxHist}

Json(archives) == [kind |-> "json", archives |-> archives]

ExitFailure == [kind |-> "exit", rc |-> 2]

Garbage == [kind |-> "garbage"]

\* every answer, for a run over one repository
Answers == {ExitFailure, Garbage} \cup {Json(h) : h \in Histories}

\* the answers of a run over several repositories
BatchAnswers ==
    { ExitFailure, Garbage, Json(<<>>),
      Json(<<Snap(3, 400, 9999, 5000), Snap(0, 1000, 50000, 30000)>>),
      Json(<<Snap(2, 100, 10000, 5000)>>) }

EmailMethods == {"debug", "aws", "sendmail"}

\* days pd.Timestamp.now() may answer
Todays == {4}

-----------------------------------------------------------------------------
(* notifier.py *)

\* s.split('/')[-1]
RECURSIVE LastSegment(_)
LastSegment(s) ==
    IF s = <<>> THEN <<>>
    ELSE IF s[Len(s)] = "/" THEN <<>>
    ELSE LastSegment(SubSeq(s, 1, Len(s) - 1)) \o <<s[Len(s)]>>

StatsCmd(cfg, archive) ==
    <<Str("borg"), Str("info"),
      cfg["backup-host"] \o <<":">> \o archive["remote-repo"],
      Str("--last"), cfg["email-num-backups"], Str("--json")>>

\* an environment that adds the secret to the inherited one
StatsEnvInherited(cfg) ==
    "PATH" :> <<"/usr/bin">> @@ "BORG_PASSPHRASE" :> cfg["backup-password"]

StatsEnv(cfg) == "BORG_PASSPHRASE" :> cfg["backup-password"]

\* MailMessage.__init__
MailMessage(subj, fromaddr, toaddrs) ==
    [subject |-> subj, fromaddr |-> fromaddr, toaddrs |-> toaddrs,
     header |-> <<>>, mainbody |-> <<>>, graphs |-> <<>>, attached |-> <<>>]

head(m, w) == [m EXCEPT !.header = Append(@, w)]

warn(m, archive, s) ==
    head(head(head(m, Str("<p style='font-weight: bold; color: red'>")),
              <<"WARNING: ">> \o archive["remote-repo"] \o <<": ">> \o s),
         Str("</p>"))

body(m, w) == [m EXCEPT !.mainbody = Append(@, w)]

\* tdclass "" stands for None: both are false in `if tdclass:`
td(m, s, tdclass) ==
    LET opened == body(m, Str("<td"))
        classed == IF tdclass # ""
                   THEN body(opened, <<" class=\"", tdclass, "\"">>)
                   ELSE opened
    IN  body(classed, <<">">> \o s \o <<"</td>">>)

graph(m, g) == [m EXCEPT !.graphs = Append(@, g)]

image(m, img) ==
    LET fn == <<"img", ToString(Len(m.graphs))>>
        shown == graph(m, <<"<img src=\"cid:">> \o fn \o <<"\">">>)
    IN  [shown EXCEPT !.attached = Append(@, [name |-> fn, data |-> img])]

\* MailMessage.serialize: the digest handed to a delivery channel
serialize(m) ==
    [subject |-> m.subject, fromaddr |-> m.fromaddr, toaddrs |-> m.toaddrs,
     html |-> Flatten(m.header) \o Flatten(m.mainbody) \o Flatten(m.graphs),
     images |-> m.attached]

\* Series.idxmin / Series.idxmax: the first position of the least / greatest
RECURSIVE IdxMin(_, _)
IdxMin(df, n) ==
    IF n = 1 THEN 1
    ELSE LET best == IdxMin(df, n - 1)
         IN  IF df[n].start < df[best].start THEN n ELSE best

RECURSIVE IdxMax(_, _)
IdxMax(df, n) ==
    IF n = 1 THEN 1
    ELSE LET best == IdxMax(df, n - 1)
         IN  IF df[n].start > df[best].start THEN n ELSE best

\* the renderings of pandas and humanize, left symbolic
DateStr(d) == <<"Timestamp(", ToString(d), ")">>
precisedelta(age) == <<"precisedelta(", ToString(age), ")">>
metric(n) == <<"metric(", ToString(n), ")">>
naturalsize(n) == <<"naturalsize(", ToString(n), ")">>
Pct1f(latest, earliest) == <<"pct.1f(", ToString(latest), "/", ToString(earliest), ")">>

StaleDays == 2
FewFiles == 100
FewBytes == 10000

\* a staleness rule that fires at the threshold
IsStaleAtThreshold(age) == age >= StaleDays

IsStale(age) == age > StaleDays

IsFew(value, least) == value < least

Abs(x) == IF x < 0 THEN 0 - x ELSE x

\* a drift rule without abs(): only a drop counts
BigChangeDropOnly(latest, earliest) == 5 * (earliest - latest) > earliest

\* abs(latest / earliest - 1) > 0.2 for earliest > 0, in exact arithmetic
BigChange(latest, earliest) == 5 * Abs(latest - earliest) > earliest

GoodBad(bad) == IF bad THEN "bad" ELSE "good"

\* fig.to_image: the two traces of the chart, in the order of the data frame
Chart(df) ==
    [x |-> [n \in DOMAIN df |-> df[n].start],
     size |-> [n \in DOMAIN df |-> df[n].original_size],
     files |-> [n \in DOMAIN df |-> df[n].nfiles]]

\* generate_one_report from its second statement on, for a non-empty frame
generate_one_report(m, archive, df, nowday) ==
    LET earliest == df[IdxMin(df, Len(df))]
        latest == df[IdxMax(df, Len(df))]
        m1 == td(td(body(m, Str("<tr>")),
                    LastSegment(archive["remote-repo"]), ""),
                 DateStr(latest.start), "")
        age == nowday - latest.start
        m2 == td(IF IsStale(age)
                 THEN warn(m1, archive, precisedelta(age) \o <<" old!">>)
                 ELSE m1,
                 precisedelta(age), GoodBad(IsStale(age)))
        nfiles == latest.nfiles
        m3 == td(IF IsFew(nfiles, FewFiles)
                 THEN warn(m2, archive, Str("Few files backed up!"))
                 ELSE m2,
                 metric(nfiles), GoodBad(IsFew(nfiles, FewFiles)))
        osize == latest.original_size
        m4 == td(IF IsFew(osize, FewBytes)
                 THEN warn(m3, archive, Str("Few bytes backed up!"))
                 ELSE m3,
                 naturalsize(osize), GoodBad(IsFew(osize, FewBytes)))
        m5 == body(td(m4, naturalsize(latest.compressed_size), ""), Str("</tr>"))
        m6 == IF earliest.nfiles > 0 /\ BigChange(latest.nfiles, earliest.nfiles)
              THEN warn(m5, archive,
                        <<"Big change in files backed up: ">>
                        \o Pct1f(latest.nfiles, earliest.nfiles) \o <<"%!">>)
              ELSE m5
        m7 == IF earliest.original_size > 0
                 /\ BigChange(latest.original_size, earliest.original_size)
              THEN warn(m6, archive,
                        <<"Big change in size backed up: ">>
                        \o Pct1f(latest.original_size, earliest.original_size)
                        \o <<"%!">>)
              ELSE m6
    IN  image(graph(m7, <<"<h3>">> \o archive["remote-repo"] \o <<"</h3>">>),
              Chart(df))

TableHead ==
    << Str("<table class=\"backup\"><thead>"),
       Str("<th>Partition</th>"), Str("<th>Last Backup</th>"),
       Str("<th>Backup Age</th>"), Str("<th>Num Files</th>"),
       Str("<th>Orig Size</th>"), Str("<th>Backup Size</th>"),
       Str("</thead><tbody>") >>

\* generate_reports up to its loop
report_start ==
    /\ rpc = "start"
    /\ msg' = [head(MailMessage(<<"Backup report, ", "month_name(", ToString(today),
                                  ")", " ", "day(", ToString(today), ")">>,
                                config["email-from"], config["email-to"]),
                    Str("<html><head><style>...</style></head><body>"))
               EXCEPT !.mainbody = TableHead]
    /\ k' = 1
    /\ rpc' = "loop"
    /\ UNCHANGED <<debug, email_method, engine, today, stderr, queries, outbox, bvars>>

\* what get_backup_stats leaves behind before it returns or raises
StatsLine(cfg, archive) == <<"running: ">> \o Join(<<" ">>, StatsCmd(cfg, archive))

\* the uncaught exception, as the interpreter prints it
Traceback(answer, cmd) ==
    IF answer.kind = "exit"
    THEN <<"subprocess.CalledProcessError: Command ">> \o Repr(cmd)
         \o <<" returned non-zero exit status ", ToString(answer.rc)>>
    ELSE IF answer.kind = "garbage"
    THEN Str("json.decoder.JSONDecodeError")
    ELSE Str("KeyError: 'start'")

Queried ==
    IF debug
    THEN queries' = queries
    ELSE queries' = Append(queries,
             [argv |-> StatsCmd(config, specs[k]), env |-> StatsEnv(config)])

QueryLog == IF debug THEN stderr ELSE Append(stderr, StatsLine(config, specs[k]))

\* whether generate_one_report gets through for this answer: check_output
\* raises on a non-zero exit, json.loads on unparseable output, and
\* df['start'] on a frame without rows
Raises(answer) ==
    \/ answer.kind = "exit"
    \/ answer.kind = "garbage"
    \/ answer.kind = "json" /\ answer.archives = <<>>

\* one pass of the loop of generate_reports that returns
report_one ==
    /\ rpc = "loop"
    /\ k <= Len(specs)
    /\ ~Raises(engine[k])
    /\ Queried
    /\ stderr' = QueryLog
    /\ msg' = generate_one_report(msg, specs[k], engine[k].archives, today)
    /\ k' = k + 1
    /\ UNCHANGED <<debug, email_method, engine, today, rpc, outbox, bvars>>

\* one pass of the loop that raises: nothing catches it, the run ends
report_one_raises ==
    /\ rpc = "loop"
    /\ k <= Len(specs)
    /\ Raises(engine[k])
    /\ Queried
    /\ stderr' = Append(QueryLog, Traceback(engine[k], StatsCmd(config, specs[k])))
    /\ rpc' = "crashed"
    /\ UNCHANGED <<debug, email_method, engine, today, k, msg, outbox, bvars>>

\* the end of generate_reports: close the table and call the channel
report_send ==
    /\ rpc = "loop"
    /\ k > Len(specs)
    /\ msg' = body(msg, Str("</tbody></table></body></html>"))
    /\ \/ /\ email_method = "debug"
          /\ stderr' = Append(stderr, Str("Writing test email to test-email.eml"))
          /\ outbox' = Append(outbox, [channel |-> "test-email.eml",
                                       data |-> serialize(msg')])
          /\ rpc' = "done"
       \/ /\ email_method = "aws"
          /\ outbox' = Append(outbox, [channel |-> "ses",
                                       data |-> serialize(msg')])
          /\ stderr' = stderr
          /\ rpc' = "done"
       \/ /\ email_method = "sendmail"
          /\ stderr' = Append(stderr, Str("Exception: unimplemented"))
          /\ outbox' = outbox
          /\ rpc' = "crashed"
    /\ UNCHANGED <<debug, email_method, engine, today, k, queries, bvars>>

-----------------------------------------------------------------------------
(* Specifications *)

NoMessage == MailMessage(<<>>, <<>>, <<>>)

BackupIdle ==
    /\ dry_run = FALSE
    /\ clock = [hour |-> 0, tick |-> 0]
    /\ pc = "idle"
    /\ i = 0
    /\ is_workday = FALSE
    /\ now = 0
    /\ sink = "stdout"
    /\ log = <<>>
    /\ spawned = <<>>
    /\ failures = 0
    /\ prev = NoRun

ReportIdle ==
    /\ debug = FALSE
    /\ email_method = "debug"
    /\ engine = <<>>
    /\ today = 0
    /\ rpc = "idle"
    /\ k = 0
    /\ msg = NoMessage
    /\ stderr = <<>>
    /\ queries = <<>>
    /\ outbox = <<>>

BackupInit ==
    /\ config \in Configs
    /\ dry_run \in BOOLEAN
    /\ clock \in [hour : 0..23, tick : Ticks]
    /\ pc = "start"
    /\ i = 0
    /\ is_workday = FALSE
    /\ now = 0
    /\ sink = "stdout"
    /\ log = <<>>
    /\ spawned = <<>>
    /\ failures = 0
    /\ prev = NoRun
    /\ ReportIdle

\* with --debug every query reads the same sample file, which has no exit status
SampleFile(answers) ==
    \A n \in DOMAIN answers : answers[n].kind # "exit" /\ answers[n] = answers[1]

ReportInit ==
    /\ config \in Configs
    /\ debug \in BOOLEAN
    /\ email_method \in EmailMethods
    /\ today \in Todays
    /\ \/ /\ specs = <<NormalSpec>>
          /\ email_method = "debug"
          /\ engine \in [1..1 -> Answers]
       \/ engine \in [1..Len(specs) -> BatchAnswers]
    /\ debug => SampleFile(engine)
    /\ rpc = "start"
    /\ k = 0
    /\ msg = NoMessage
    /\ stderr = <<>>
    /\ queries = <<>>
    /\ outbox = <<>>
    /\ BackupIdle

\* the same configuration run again under the same clock, in the other mode
backup_again ==
    /\ pc = "done"
    /\ ~prev.valid
    /\ prev' = [log |-> log, spawned |-> spawned, dry_run |-> dry_run, valid |-> TRUE]
    /\ failures' = 0
    /\ dry_run' = ~dry_run
    /\ pc' = "start"
    /\ i' = 0
    /\ is_workday' = FALSE
    /\ now' = 0
    /\ sink' = "stdout"
    /\ log' = <<>>
    /\ spawned' = <<>>
    /\ UNCHANGED <<config, clock, rvars>>

BackupNext ==
    \/ backup_start
    \/ backup_skip
    \/ backup_one_create
    \/ backup_one_prune
    \/ backup_one_list
    \/ backup_finish

ReportNext ==
    \/ report_start
    \/ report_one
    \/ report_one_raises
    \/ report_send

PairNext == BackupNext \/ backup_again

Init == BackupInit \/ ReportInit

Next == BackupNext \/ ReportNext

BackupSpec == BackupInit /\ [][BackupNext]_vars

PairSpec == BackupInit /\ [][PairNext]_vars

ReportSpec == ReportInit /\ [][ReportNext]_vars

Spec == Init /\ [][Next]_vars

-----------------------------------------------------------------------------
(* Reading the backup runner's log and commands back *)

IsCmdLine(line) == line[1] \in {"would run", "running"}

IsSkipLine(line) == line[1] = "Skipping mid-day backup of "

CmdLines(l) == SelectSeq(l, IsCmdLine)

SkipLines(l) == SelectSeq(l, IsSkipLine)

\* the subcommand of a logged command: the second item of the printed list
Subcommand(line) == line[9]

Within(sub, s) ==
    \E p \in 1..(Len(s) - Len(sub) + 1) : SubSeq(s, p, p + Len(sub) - 1) = sub

\* the gate as the specification words it
Declined(n) ==
    /\ clock.hour \in 7..23
    /\ "is-slow" \in DOMAIN specs[n]
    /\ specs[n]["is-slow"] = TRUE

Repo(n) == config["backup-host"] \o <<":">> \o specs[n]["remote-repo"]

Pipeline(n) ==
    << [cmd |-> "create", spec |-> n], [cmd |-> "prune", spec |-> n],
       [cmd |-> "list", spec |-> n] >>

\* the commands due for the first n specs, in configuration order
RECURSIVE Due(_)
Due(n) ==
    IF n <= 0 THEN <<>>
    ELSE Due(n - 1) \o (IF Declined(n) THEN <<>> ELSE Pipeline(n))

\* the commands due at the current position of the run
DueNow ==
    Due(i - 1) \o (IF pc = "prune" THEN SubSeq(Pipeline(i), 1, 1)
                   ELSE IF pc = "list" THEN SubSeq(Pipeline(i), 1, 2)
                   ELSE <<>>)

Admitted(n) == {m \in 1..n : ~Declined(m)}

LineTargets(line, due) ==
    /\ Subcommand(line) = due.cmd
    /\ IF due.cmd = "create"
       THEN Within(<<"'">> \o Repo(due.spec) \o <<"::">>, line)
       ELSE Within(<<", ", "'">> \o Repo(due.spec) \o <<"'">>, line)

ArgvTargets(argv, due) ==
    /\ argv[1] = <<"borg">>
    /\ argv[2] = <<due.cmd>>
    /\ IF due.cmd = "create"
       THEN \E a \in DOMAIN argv :
               /\ Len(argv[a]) > Len(Repo(due.spec))
               /\ SubSeq(argv[a], 1, Len(Repo(due.spec)) + 1)
                     = Repo(due.spec) \o <<"::">>
       ELSE IF due.cmd = "prune" THEN argv[4] = Repo(due.spec)
       ELSE argv = << <<"borg">>, <<"list">>, Repo(due.spec) >>

-----------------------------------------------------------------------------
(* Claims about the backup runner *)

C2_CommandOrder ==
    LET cl == CmdLines(log)
    IN  /\ Len(cl) = Len(DueNow)
        /\ \A n \in DOMAIN cl : LineTargets(cl[n], DueNow[n])
        /\ ~dry_run =>
              /\ Len(spawned) = Len(DueNow)
              /\ \A n \in DOMAIN spawned : ArgvTargets(spawned[n].argv, DueNow[n])
        /\ pc \in {"loop", "done"} =>
              /\ Len(SkipLines(log)) = (i - 1) - Cardinality(Admitted(i - 1))
              /\ Len(log) = 1 + Len(SkipLines(log))
                            + 5 * Cardinality(Admitted(i - 1))
                            + (IF pc = "done" THEN 1 ELSE 0)

\* one normal and one slow spec at hour 10: three commands, all for the
\* normal spec's repository
C2_Witness ==
    /\ pc = "done"
    /\ ~dry_run
    /\ clock.hour = 10
    /\ specs = <<NormalSpec, SlowSpec>>
    /\ Len(spawned) = 3
    /\ \A n \in 1..3 : ArgvTargets(spawned[n].argv, Pipeline(1)[n])
    /\ Len(SkipLines(log)) = 1

\* C3: a command that exits non-zero never ends the run: the run is at one
\* of its ordinary positions, can take its next step until it has logged
\* 'Finishing', and has issued every command due so far whatever the number
\* of failures.
C3_FailureIsolation ==
    /\ pc \in {"start", "loop", "prune", "list", "done"}
    /\ pc # "done" => ENABLED BackupNext
    /\ failures <= Len(spawned)
    /\ ~dry_run => Len(spawned) = Len(DueNow)
    /\ pc = "done" =>
          /\ i = Len(specs) + 1
          /\ log[Len(log)] = <<"Finishing\n\n\n">>

\* a finished run of two admitted specs in which all six commands failed
C3_Witness ==
    /\ pc = "done"
    /\ Len(specs) = 2
    /\ failures = 6
    /\ Len(spawned) = 6

KeepFlags ==
    << <<"--keep-hourly">>, <<"50">>, <<"--keep-daily">>, <<"90">>,
       <<"--keep-weekly">>, <<"90">>, <<"--keep-monthly">>, <<"1000">> >>

PruneArgv(n) == << <<"borg">>, <<"prune">>, <<"--stats">>, Repo(n) >> \o KeepFlags

IsPrune(line) == IsCmdLine(line) /\ Subcommand(line) = "prune"

\* C4: every prune command, logged or issued, is borg prune --stats
\* <repository> followed by exactly --keep-hourly 50 --keep-daily 90
\* --keep-weekly 90 --keep-monthly 1000, and a finished run has one prune
\* per spec it did not skip.
C4_Retention ==
    /\ \A n \in DOMAIN log :
          IsPrune(log[n]) =>
             \E m \in 1..Len(specs) :
                /\ ~Declined(m)
                /\ log[n] = <<log[n][1], ": ">> \o Repr(PruneArgv(m))
    /\ \A n \in DOMAIN spawned :
          spawned[n].argv[2] = <<"prune">> =>
             \E m \in 1..Len(specs) : spawned[n].argv = PruneArgv(m)
    /\ pc = "done" =>
          Len(SelectSeq(log, IsPrune)) = Cardinality(Admitted(Len(specs)))

\* a finished run that pruned the repository of a spec with extra arguments
\* and exclude patterns
C4_Witness ==
    /\ pc = "done"
    /\ ~dry_run
    /\ clock.hour = 3
    /\ specs = <<SlowSpec, NormalSpec>>
    /\ spawned[2].argv = PruneArgv(1)
    /\ spawned[5].argv = PruneArgv(2)

DryOf == IF dry_run THEN [log |-> log, spawned |-> spawned] ELSE prev

LiveOf == IF dry_run THEN prev ELSE [log |-> log, spawned |-> spawned]

\* C5: a dry run spawns nothing, and when the same configuration has been
\* run dry and live under the same clock the command lines the dry run
\* logged are, one for one and in order, the argument vectors the live run
\* passed to the archive engine.
C5_DryMatchesLive ==
    /\ dry_run => spawned = <<>>
    /\ (prev.valid /\ pc = "done") =>
          LET dry == CmdLines(DryOf.log)
              live == LiveOf.spawned
          IN  /\ DryOf.spawned = <<>>
              /\ Len(dry) = Len(live)
              /\ Len(CmdLines(LiveOf.log)) = Len(live)
              /\ \A n \in DOMAIN dry :
                    dry[n] = <<"would run", ": ">> \o Repr(live[n].argv)

\* both runs of a two-spec configuration are over, the dry one first
C5_Witness ==
    /\ prev.valid
    /\ prev.dry_run
    /\ pc = "done"
    /\ specs = <<SlowSpec, NormalSpec>>
    /\ clock.hour = 5
    /\ Len(spawned) = 6
    /\ Len(CmdLines(prev.log)) = 6

-----------------------------------------------------------------------------
(* Claims about both programs *)

Secret == config["backup-password"]

\* the secret occurs in a text
Leaks(text) == \E t \in Tokens(Secret) : t \in Tokens(text)

SecretOnlyInEnv(call) ==
    /\ DOMAIN call.env = {"BORG_PASSPHRASE"}
    /\ call.env["BORG_PASSPHRASE"] = Secret
    /\ \A a \in DOMAIN call.argv : ~Leaks(call.argv[a])

LeakFree(lines) == \A n \in DOMAIN lines : ~Leaks(lines[n])

\* C6: every archive-engine call of either program (create, prune, list,
\* info) gets an environment holding the one variable BORG_PASSPHRASE = the
\* configured secret, and the secret occurs in no argument, in no line of
\* the log or of stderr, and nowhere in the report digest.
C6_SecretConfined ==
    /\ \A n \in DOMAIN spawned : SecretOnlyInEnv(spawned[n])
    /\ \A n \in DOMAIN queries : SecretOnlyInEnv(queries[n])
    /\ LeakFree(log)
    /\ LeakFree(stderr)
    /\ LeakFree(msg.header) /\ LeakFree(msg.mainbody) /\ LeakFree(msg.graphs)
    /\ ~Leaks(msg.subject)
    /\ \A n \in DOMAIN outbox :
          ~Leaks(outbox[n].data.html) /\ ~Leaks(outbox[n].data.subject)

\* a live backup run has issued create, prune and list for two specs
C6_Witness ==
    /\ pc = "done"
    /\ ~dry_run
    /\ Len(spawned) = 6
    /\ \A n \in 1..6 : spawned[n].env["BORG_PASSPHRASE"] = <<"hunter2">>

-----------------------------------------------------------------------------
(* Reading the report back *)

\* the snapshot of greatest / least start, the first of them in the answer
LatestOf(h) ==
    h[CHOOSE n \in DOMAIN h :
         /\ \A m \in DOMAIN h : h[m].start <= h[n].start
         /\ \A m \in 1..(n - 1) : h[m].start < h[n].start]

EarliestOf(h) ==
    h[CHOOSE n \in DOMAIN h :
         /\ \A m \in DOMAIN h : h[m].start >= h[n].start
         /\ \A m \in 1..(n - 1) : h[m].start > h[n].start]

IsWarning(entry) == entry[1] = "WARNING: "

\* the warnings a header holds that carry the given phrase
Warned(header, phrase) ==
    Cardinality({n \in DOMAIN header : IsWarning(header[n]) /\ phrase \in Tokens(header[n])})

AllWarnings(header) == Cardinality({n \in DOMAIN header : IsWarning(header[n])})

\* what one pass of the loop added to the message
NewHeader == SubSeq(msg'.header, Len(msg.header) + 1, Len(msg'.header))

NewRow == SubSeq(msg'.mainbody, Len(msg.mainbody) + 1, Len(msg'.mainbody))

\* the class of the cell whose class attribute is the p-th piece of the row
CellClass(row, p) == row[p][2]

RowDone == rpc = "loop" /\ k' = k + 1

One(cond) == IF cond THEN 1 ELSE 0

-----------------------------------------------------------------------------
(* Claims about the report runner *)

\* C7: each pass of the loop that returns judges the snapshot of greatest
\* start: the age cell is bad and one staleness warning is added exactly
\* when now - start > 2 days, the file cell is bad and one few-files
\* warning is added exactly when nfiles < 100, the size cell is bad and one
\* few-bytes warning is added exactly when original_size < 10000; otherwise
\* the cell is good and the rule adds nothing.
C7_LatestRules ==
    [][RowDone =>
          LET latest == LatestOf(engine[k].archives)
              stale == today - latest.start > 2
              fewfiles == latest.nfiles < 100
              fewbytes == latest.original_size < 10000
          IN  /\ Len(NewRow) = 17
              /\ CellClass(NewRow, 7) = (IF stale THEN "bad" ELSE "good")
              /\ Warned(NewHeader, " old!") = One(stale)
              /\ CellClass(NewRow, 10) = (IF fewfiles THEN "bad" ELSE "good")
              /\ Warned(NewHeader, "Few files backed up!") = One(fewfiles)
              /\ CellClass(NewRow, 13) = (IF fewbytes THEN "bad" ELSE "good")
              /\ Warned(NewHeader, "Few bytes backed up!") = One(fewbytes)
              /\ AllWarnings(NewHeader) >= One(stale) + One(fewfiles) + One(fewbytes)
              /\ Len(NewHeader) = 3 * AllWarnings(NewHeader)]_vars

\* a report whose latest snapshot is three days old, listed first of three,
\* with a bad age cell and its staleness warning
C7_Witness ==
    /\ rpc = "done"
    /\ Len(specs) = 1
    /\ Len(engine[1].archives) = 3
    /\ LatestOf(engine[1].archives) = engine[1].archives[1]
    /\ today - engine[1].archives[1].start = 3
    /\ msg.mainbody[15] = <<" class=\"", "bad", "\"">>
    /\ Warned(msg.header, " old!") = 1

DriftDue(latest, earliest) ==
    earliest > 0 /\ (5 * latest > 6 * earliest \/ 5 * latest < 4 * earliest)

\* C8: each pass of the loop that returns compares the snapshots of least
\* and greatest start, wherever they stand in the answer: one file-drift
\* warning is added exactly when the earliest file count is above 0 and the
\* latest differs from it by more than a fifth, one size-drift warning
\* likewise for original_size, and none for a metric whose earliest is 0.
C8_DriftRule ==
    [][RowDone =>
          LET latest == LatestOf(engine[k].archives)
              earliest == EarliestOf(engine[k].archives)
          IN  /\ Warned(NewHeader, "Big change in files backed up: ")
                    = One(DriftDue(latest.nfiles, earliest.nfiles))
              /\ Warned(NewHeader, "Big change in size backed up: ")
                    = One(DriftDue(latest.original_size, earliest.original_size))]_vars

\* a four-point history, newest first, falling from 1000 to 400 files: one
\* file-drift warning
C8_Witness ==
    /\ rpc = "done"
    /\ Len(engine) = 1
    /\ engine[1] = Json(<< Snap(3, 400, 9999, 5000), Snap(1, 750, 40000, 20000),
                           Snap(2, 850, 60000, 30000), Snap(0, 1000, 50000, 30000) >>)
    /\ Warned(msg.header, "Big change in files backed up: ") = 1
    /\ Warned(msg.header, "Big change in size backed up: ") = 1

\* C9: a metadata query that returns zero archives yields a row of its own
\* "no data" class and the run goes on: the run never ends in an uncaught
\* exception at a repository whose answer is an empty list of archives.
C9_EmptyHistoryHandled ==
    ~(/\ rpc = "crashed"
      /\ k <= Len(specs)
      /\ engine[k] = Json(<<>>))

Failed(answer) == answer.kind \in {"exit", "garbage"}

\* C10: when the collection of one repository fails, the digest is still
\* built and handed to the delivery channel: a run that is over, with a
\* channel that is implemented, has delivered one message holding one table
\* row per configured repository.
C10_ReportIsolation ==
    (/\ rpc \in {"done", "crashed"}
     /\ email_method # "sendmail"
     /\ \E n \in DOMAIN engine : Failed(engine[n])
     /\ \A n \in DOMAIN engine : engine[n] # Json(<<>>))
    => /\ Len(outbox) = 1
       /\ Cardinality({n \in DOMAIN msg.mainbody : msg.mainbody[n] = <<"<tr>">>})
             = Len(specs)

====
